---- MODULE Spec2Model ----
(***************************************************************************)
(* Cramer-Rao bound evaluators of doatools/performance/crb.py:             *)
(*   crb_sto_farfield_1d, crb_det_farfield_1d, crb_stouc_farfield_1d.      *)
(*                                                                         *)
(* Numbers.  The code computes in complex floating point.  The model       *)
(* computes the same expressions in exact arithmetic over the Gaussian     *)
(* rationals: a number is <<a, b, d>>, standing for (a + b*i)/d with d > 0 *)
(* and gcd(a, b, d) = 1.  A real number has b = 0.  A matrix is a sequence *)
(* of rows.  Rounding is modelled where it decides how a call ends: in     *)
(* LAPACK's test for a zero pivot (see Getrf and Kind).  What LAPACK       *)
(* returns from a matrix that is singular in exact arithmetic is rounding  *)
(* noise: Noise stands for a finite number that the model does not fix.    *)
(***************************************************************************)
EXTENDS Integers, Sequences, FiniteSets

(***************************************************************************)
(* Scalars                                                                 *)
(***************************************************************************)
Abs(x) == IF x < 0 THEN -x ELSE x

RECURSIVE GCD(_, _)
GCD(x, y) == IF y = 0 THEN x ELSE GCD(y, x % y)

GCD3(a, b, d) == GCD(GCD(Abs(a), Abs(b)), Abs(d))

\* (a + b*i)/d in lowest terms with a positive denominator (d # 0).
DivideBy(a, b, d, s) == <<a \div s, b \div s, d \div s>>
CNorm(a, b, d) ==
    IF d = 1 THEN <<a, b, 1>>
    ELSE DivideBy(a, b, d, (IF d < 0 THEN -1 ELSE 1) * GCD3(a, b, d))

CInt(x) == <<x, 0, 1>>
Zero == <<0, 0, 1>>
One == <<1, 0, 1>>
Half == <<1, 0, 2>>
Two == <<2, 0, 1>>
ImagUnit == <<0, 1, 1>>

\* A finite number not fixed by the model (rounding noise)
Noise == <<1, 0, 0>>
IsNoise(z) == z[3] = 0

IsZero(z) == z[1] = 0 /\ z[2] = 0 /\ z[3] # 0
\* x + y over the least common denominator; g = gcd of the denominators
AddOver(x, y, g) ==
    CNorm(x[1] * (y[3] \div g) + y[1] * (x[3] \div g),
          x[2] * (y[3] \div g) + y[2] * (x[3] \div g),
          x[3] * (y[3] \div g))
CAdd(x, y) ==
    IF IsNoise(x) \/ IsNoise(y) THEN Noise
    ELSE IF IsZero(x) THEN y
    ELSE IF IsZero(y) THEN x
    ELSE AddOver(x, y, GCD(x[3], y[3]))
CNeg(x) == IF IsNoise(x) THEN Noise ELSE <<-x[1], -x[2], x[3]>>
CSub(x, y) == CAdd(x, CNeg(y))
\* x * y after cancelling g1 = gcd(numerator of x, denominator of y) and
\* g2 = gcd(numerator of y, denominator of x)
MulOver(x, y, g1, g2) ==
    CNorm((x[1] \div g1) * (y[1] \div g2) - (x[2] \div g1) * (y[2] \div g2),
          (x[1] \div g1) * (y[2] \div g2) + (x[2] \div g1) * (y[1] \div g2),
          (x[3] \div g2) * (y[3] \div g1))
CMul(x, y) ==
    IF IsZero(x) \/ IsZero(y) THEN Zero
    ELSE IF IsNoise(x) \/ IsNoise(y) THEN Noise
    ELSE MulOver(x, y, GCD3(x[1], x[2], y[3]), GCD3(y[1], y[2], x[3]))
CConj(x) == IF IsNoise(x) THEN Noise ELSE <<x[1], -x[2], x[3]>>
\* 1/x for x # 0:  conj(x) / |x|^2
CInv(x) ==
    IF IsNoise(x) THEN Noise
    ELSE CNorm(x[1] * x[3], -x[2] * x[3], x[1] * x[1] + x[2] * x[2])
CDiv(x, y) == CMul(x, CInv(y))
CReal(x) == IF IsNoise(x) THEN Noise ELSE CNorm(x[1], 0, x[3])
\* x <= y for real x, y that the model fixes
RLeq(x, y) == x[1] * y[3] <= y[1] * x[3]

(***************************************************************************)
(* Matrices (numpy operators used by crb.py)                               *)
(***************************************************************************)
Rows(X) == Len(X)
Cols(X) == IF Len(X) = 0 THEN 0 ELSE Len(X[1])

\* The first n values of f as a sequence, and the r x q matrix with the
\* entries of F, each entry computed once.
RECURSIVE Vec(_, _)
Vec(f, n) == IF n = 0 THEN <<>> ELSE Append(Vec(f, n - 1), f[n])
Mat(F, r, q) == Vec([i \in 1..r |-> Vec(F[i], q)], r)

RECURSIVE SumTo(_, _)
SumTo(f, n) == IF n = 0 THEN Zero ELSE CAdd(SumTo(f, n - 1), f[n])

\* X @ Y
MatMul(X, Y) ==
    Mat([i \in 1..Rows(X) |-> [j \in 1..Cols(Y) |->
            SumTo([k \in 1..Rows(Y) |-> CMul(X[i][k], Y[k][j])], Rows(Y))]],
        Rows(X), Cols(Y))
\* X.T
Transpose(X) ==
    Mat([j \in 1..Cols(X) |-> [i \in 1..Rows(X) |-> X[i][j]]], Cols(X), Rows(X))
\* X.conj()
Conj(X) ==
    Mat([i \in 1..Rows(X) |-> [j \in 1..Cols(X) |-> CConj(X[i][j])]],
        Rows(X), Cols(X))
\* X.conj().T, X.T.conj()
ConjT(X) == Conj(Transpose(X))
\* np.eye(n)
Eye(n) == Mat([i \in 1..n |-> [j \in 1..n |-> IF i = j THEN One ELSE Zero]], n, n)
\* X + Y, X - Y, X * Y (elementwise), c * X, X.real
MatAdd(X, Y) ==
    Mat([i \in 1..Rows(X) |-> [j \in 1..Cols(X) |-> CAdd(X[i][j], Y[i][j])]],
        Rows(X), Cols(X))
MatSub(X, Y) ==
    Mat([i \in 1..Rows(X) |-> [j \in 1..Cols(X) |-> CSub(X[i][j], Y[i][j])]],
        Rows(X), Cols(X))
Hadamard(X, Y) ==
    Mat([i \in 1..Rows(X) |-> [j \in 1..Cols(X) |-> CMul(X[i][j], Y[i][j])]],
        Rows(X), Cols(X))
Scale(c, X) ==
    Mat([i \in 1..Rows(X) |-> [j \in 1..Cols(X) |-> CMul(c, X[i][j])]],
        Rows(X), Cols(X))
Real(X) ==
    Mat([i \in 1..Rows(X) |-> [j \in 1..Cols(X) |-> CReal(X[i][j])]],
        Rows(X), Cols(X))
\* np.trace(X)
Trace(X) == SumTo([i \in 1..Rows(X) |-> X[i][i]], Rows(X))
\* X[:k, :k]
TopLeft(X, k) == Mat(X, k, k)
\* np.sum(X, axis=0): the column sums, as a vector
ColSums(X) ==
    Vec([j \in 1..Cols(X) |-> SumTo([i \in 1..Rows(X) |-> X[i][j]], Rows(X))],
        Cols(X))
\* np.outer(p, q)
Outer(p, q) ==
    Mat([i \in 1..Len(p) |-> [j \in 1..Len(q) |-> CMul(p[i], q[j])]],
        Len(p), Len(q))
\* np.block of a row of blocks with equal row counts
HStack3(X, Y, Z) == Vec([i \in 1..Rows(X) |-> X[i] \o Y[i] \o Z[i]], Rows(X))
\* v[:, np.newaxis]: a vector as a column
Column(v) == Vec([i \in 1..Len(v) |-> <<v[i]>>], Len(v))

\* What an operator yields when the expression it models raises: the empty
\* matrix.  The raising step names the exception.
Raised == <<>>

\* Gauss-Jordan elimination of the augmented matrix W = [X | I], column c on,
\* for the value of the inverse.  Raised: X is singular (a column without a
\* pivot).  The pivot is the first nonzero entry at or below the diagonal;
\* the value of the inverse does not depend on the pivot order.
RECURSIVE FirstNonzero(_, _, _)
FirstNonzero(W, c, r) ==
    IF r > Len(W) THEN 0
    ELSE IF ~IsZero(W[r][c]) THEN r
    ELSE FirstNonzero(W, c, r + 1)
SwapRows(W, c, r) ==
    Vec([i \in 1..Len(W) |-> IF i = c THEN W[r] ELSE IF i = r THEN W[c] ELSE W[i]],
        Len(W))
ScaleRow(row, x) == Vec([j \in 1..Len(row) |-> CMul(row[j], x)], Len(row))
EliminateRow(row, f, prow) ==
    IF IsZero(f) THEN row
    ELSE Vec([j \in 1..Len(row) |-> CSub(row[j], CMul(f, prow[j]))], Len(row))
Eliminate(W, c, prow) ==
    Vec([i \in 1..Len(W) |->
            IF i = c THEN prow ELSE EliminateRow(W[i], W[i][c], prow)], Len(W))
\* W has its pivot of column c on the diagonal
PivotStep(W, c) == Eliminate(W, c, ScaleRow(W[c], CInv(W[c][c])))
RECURSIVE GaussJordan(_, _)
RECURSIVE GaussJordanAt(_, _, _)
GaussJordanAt(W, c, r) ==
    IF r = 0 THEN Raised
    ELSE GaussJordan(PivotStep(SwapRows(W, c, r), c), c + 1)
GaussJordan(W, c) ==
    IF c > Len(W) THEN W ELSE GaussJordanAt(W, c, FirstNonzero(W, c, c))

Augment(X) == Vec([i \in 1..Rows(X) |-> X[i] \o Eye(Rows(X))[i]], Rows(X))
RightHalf(G, n) ==
    IF G = Raised THEN Raised
    ELSE Mat([i \in 1..n |-> [j \in 1..n |-> G[i][n + j]]], n, n)
\* The value of the inverse of X; Raised when X is singular
ExactInverse(X) == RightHalf(GaussJordan(Augment(X), 1), Rows(X))

\* LAPACK's LU factorization (getrf) and its zero-pivot test.  The code runs
\* in IEEE double: LinAlgError is raised only when a pivot is exactly zero in
\* the computed factorization.  A value is computed without rounding when it
\* is a dyadic rational (the entries here are small).  Factor follows getrf:
\* in column c the pivot is the first entry of largest |re| + |im| at or
\* below the diagonal, and the rows below are eliminated with the
\* multipliers W[r][c] / pivot.  It yields the first column info without a
\* pivot (0 when there is none), the row of X standing at the diagonal there,
\* and exact: whether every value read or computed up to that column is free
\* of rounding, the reciprocal of each pivot included (getrf may scale by it).
RECURSIVE IsPow2(_)
IsPow2(d) == d = 1 \/ (d % 2 = 0 /\ IsPow2(d \div 2))
IsDyadic(z) == z[3] # 0 /\ IsPow2(z[3])
Cabs1Greater(x, y) ==
    (Abs(x[1]) + Abs(x[2])) * y[3] > (Abs(y[1]) + Abs(y[2])) * x[3]
RECURSIVE PivotRow(_, _, _, _)
PivotRow(W, c, r, best) ==
    IF r > Len(W) THEN best
    ELSE PivotRow(W, c, r + 1, IF Cabs1Greater(W[r][c], W[best][c]) THEN r ELSE best)
SwapEntries(perm, c, r) ==
    Vec([i \in 1..Len(perm) |->
            IF i = c THEN perm[r] ELSE IF i = r THEN perm[c] ELSE perm[i]], Len(perm))
ColumnDyadic(W, c) == \A r \in c..Len(W) : IsDyadic(W[r][c])
TrailingDyadic(W, c) == \A r \in (c + 1)..Len(W) : \A j \in c..Len(W) : IsDyadic(W[r][j])
PivotDyadic(W, c) ==
    /\ IsDyadic(CInv(W[c][c]))
    /\ \A j \in c..Len(W) : IsDyadic(W[c][j])
\* Rows below c: the multiplier in column c, the update to the right of it
LowerEliminateRow(row, l, prow, c) ==
    Vec([j \in 1..Len(row) |->
            IF j < c THEN row[j]
            ELSE IF j = c THEN l
            ELSE CSub(row[j], CMul(l, prow[j]))], Len(row))
LowerEliminate(W, c, pinv) ==
    Vec([r \in 1..Len(W) |->
            IF r <= c THEN W[r]
            ELSE LowerEliminateRow(W[r], CMul(W[r][c], pinv), W[c], c)], Len(W))
RECURSIVE Factor(_, _, _, _)
FactorNext(W, perm, exact, c) ==
    Factor(W, perm, exact /\ TrailingDyadic(W, c), c + 1)
FactorStep(W, perm, exact, c) ==
    FactorNext(LowerEliminate(W, c, CInv(W[c][c])), perm,
               exact /\ PivotDyadic(W, c), c)
FactorAt(W, perm, exact, c, r) ==
    IF IsZero(W[r][c])
    THEN [info |-> c, row |-> perm[c], exact |-> exact]
    ELSE FactorStep(SwapRows(W, c, r), SwapEntries(perm, c, r), exact, c)
Factor(W, perm, exact, c) ==
    IF c > Len(W) THEN [info |-> 0, row |-> 0, exact |-> exact]
    ELSE FactorAt(W, perm, exact /\ ColumnDyadic(W, c), c, PivotRow(W, c, c + 1, c))
Getrf(X) == Factor(X, Vec([i \in 1..Rows(X) |-> i], Rows(X)), TRUE, 1)

HasNoise(X) == \E i \in 1..Rows(X) : \E j \in 1..Cols(X) : IsNoise(X[i][j])
NoiseMatrix(r, q) == Mat([i \in 1..r |-> [j \in 1..q |-> Noise]], r, q)

\* How a LAPACK factorization of X ends in IEEE double:
\*   "regular"   X is nonsingular: the call returns;
\*   "singular"  a pivot is zero and is computed without rounding: every
\*               build raises LinAlgError;
\*   "rounded"   a pivot is zero in exact arithmetic but is reached through
\*               rounded values, or X holds rounding noise: whether the
\*               computed pivot is exactly zero depends on the build.
KindOf(f, noisy) ==
    IF f.info # 0 /\ f.exact THEN "singular"
    ELSE IF f.info = 0 /\ ~noisy THEN "regular"
    ELSE "rounded"
Kind(X) == KindOf(Getrf(X), HasNoise(X))

\* Xi @ B for an inverse Xi that was computed, Raised otherwise
ApplyInverse(Xi, B) == IF Xi = Raised THEN Raised ELSE MatMul(Xi, B)
\* What a build that does not raise returns from a "rounded" X: the result
\* of a factorization whose last pivots are rounding errors.  Its entries
\* differ from build to build and none is fixed by X and B.
RoundedSolve(X, B) == NoiseMatrix(Rows(X), Cols(B))

\* np.linalg.solve(X, B) in a build that raises, or does not raise, on a
\* "rounded" X.  Raised stands for LinAlgError.
Solve(X, B, raises) ==
    CASE Kind(X) = "regular" -> ApplyInverse(ExactInverse(X), B)
      [] Kind(X) = "singular" -> Raised
      [] Kind(X) = "rounded" -> IF raises THEN Raised ELSE RoundedSolve(X, B)
\* np.linalg.inv(X): solve with the identity
Inv(X, raises) == Solve(X, Eye(Rows(X)), raises)

\* The float matrix a LAPACK call is given: X itself where the model fixes
\* every entry; a matrix with rounding noise is the one computed at the
\* statement and from the values of origin, and stands for no other.
FloatOf(X, origin) == IF HasNoise(X) THEN <<"noise", origin>> ELSE <<"exact", X>>
\* The build's LAPACK: the "rounded" float matrices factorized so far, each
\* with whether the factorization raised.  The same float matrix ends the
\* same way every time.
VARIABLE rounding
Raises(f, d) == <<f, TRUE>> \in d
\* The ways the factorization of X, the float matrix f, can end (TRUE:
\* LinAlgError)
LapackRaises(X, f, d) ==
    IF Kind(X) = "rounded" /\ <<f, TRUE>> \notin d /\ <<f, FALSE>> \notin d
    THEN BOOLEAN
    ELSE {Kind(X) = "singular" \/ Raises(f, d)}
Recorded(X, f, raises, d) ==
    IF Kind(X) = "rounded" THEN d \cup {<<f, raises>>} ELSE d


(***************************************************************************)
(* Collaborators.  array.steering_matrix, the source placement and the     *)
(* power normalizers of .utils are not part of crb.py; they are modelled   *)
(* from their contracts.                                                   *)
(***************************************************************************)
MinusOne == <<-1, 0, 1>>
MinusI == <<0, -1, 1>>
TwoI == <<0, 2, 1>>
MinusTwoI == <<0, -2, 1>>

\* An (array, sources) pair: m sensors, k sources, the steering matrix A and
\* its derivative D that array.steering_matrix(sources, wavelength, True,
\* 'all') returns for it.
\*   ula2x1: 2-sensor uniform linear array, one source (phase pi/2).
\*   ula3x2: 3-sensor uniform linear array, sources at phases 0 and pi/2.
\*   dup2x2: 2 sensors, two sources at the same bearing (A^H A is singular).
\*   arr3x2: 3 sensors with unit-modulus responses that are not a uniform
\*           linear array, two sources (A has rank 2).
Scene(name) ==
    CASE name = "ula2x1" ->
           [m |-> 2, k |-> 1,
            A |-> << <<One>>, <<ImagUnit>> >>,
            D |-> << <<Zero>>, <<MinusOne>> >>]
      [] name = "ula3x2" ->
           [m |-> 3, k |-> 2,
            A |-> << <<One, One>>, <<One, ImagUnit>>, <<One, MinusOne>> >>,
            D |-> << <<Zero, Zero>>, <<ImagUnit, MinusOne>>, <<TwoI, MinusTwoI>> >>]
      [] name = "dup2x2" ->
           [m |-> 2, k |-> 2,
            A |-> << <<One, One>>, <<ImagUnit, ImagUnit>> >>,
            D |-> << <<Zero, Zero>>, <<MinusOne, MinusOne>> >>]
      [] name = "arr3x2" ->
           [m |-> 3, k |-> 2,
            A |-> << <<MinusOne, ImagUnit>>, <<MinusOne, MinusI>>, <<One, One>> >>,
            D |-> << <<ImagUnit, ImagUnit>>, <<One, One>>, <<Zero, Zero>> >>]

\* array.size, sources.size
ArraySize(name) == Scene(name).m
SourcesSize(name) == Scene(name).k
\* array.steering_matrix(sources, wavelength, True, 'all')
SteeringMatrix(name) == <<Scene(name).A, Scene(name).D>>

\* A power specification is a numpy value: ndim 0 (a scalar), ndim 1 (a
\* vector) or ndim 2 (a matrix).
Scalar(x) == [ndim |-> 0, v |-> CInt(x)]
Vector(s) == [ndim |-> 1, v |-> Vec([i \in 1..Len(s) |-> CInt(s[i])], Len(s))]
Matrix(X) == [ndim |-> 2, v |-> X]
Diag(v) ==
    Mat([i \in 1..Len(v) |-> [j \in 1..Len(v) |-> IF i = j THEN v[i] ELSE Zero]],
        Len(v), Len(v))
DiagOf(X) == Vec([i \in 1..Rows(X) |-> X[i][i]], Rows(X))
\* P.shape[0] = k and P.shape[1] = k
IsSquareOf(X, k) == Rows(X) = k /\ Cols(X) = k

\* unify_p_to_matrix(p, k): the full k x k source covariance matrix; Raised
\* stands for the shape error.
UnifyPToMatrix(p, k) ==
    CASE p.ndim = 0 -> Scale(p.v, Eye(k))
      [] p.ndim = 1 -> IF Len(p.v) = k THEN Diag(p.v) ELSE Raised
      [] p.ndim = 2 -> IF IsSquareOf(p.v, k) THEN p.v ELSE Raised
\* unify_p_to_vector(p, k): the length-k vector of source powers.
UnifyPToVector(p, k) ==
    CASE p.ndim = 0 -> Vec([i \in 1..k |-> p.v], k)
      [] p.ndim = 1 -> IF Len(p.v) = k THEN p.v ELSE Raised
      [] p.ndim = 2 -> IF IsSquareOf(p.v, k) THEN DiagOf(p.v) ELSE Raised

(***************************************************************************)
(* The expressions of crb.py                                               *)
(***************************************************************************)
\* Mutant of Symmetrize: the transpose is forgotten, 0.5 * (CRB + CRB).
Symmetrize_NoTranspose(CRB) == Scale(Half, MatAdd(CRB, CRB))
\* 0.5 * (CRB + CRB.T)                                   (lines 60, 113, 191)
Symmetrize(CRB) == Scale(Half, MatAdd(CRB, Transpose(CRB)))
\* Mutant of NoiseScale: the snapshot count is dropped, sigma / 2.
NoiseScale_NoSnapshots(sigma, n_snapshots) == CDiv(CInt(sigma), Two)
\* sigma / n_snapshots / 2                                   (lines 59, 112)
NoiseScale(sigma, n_snapshots) == CDiv(CDiv(CInt(sigma), CInt(n_snapshots)), Two)
\* R = A @ P @ A_H + sigma * I                                     (line 52)
CovarianceSto(A, P, sigma) ==
    MatAdd(MatMul(MatMul(A, P), ConjT(A)), Scale(CInt(sigma), Eye(Rows(A))))
\* P_A = A @ np.linalg.solve(A_H @ A, A_H)                   (lines 54, 108)
TimesSolution(A, S) == IF S = Raised THEN Raised ELSE MatMul(A, S)
GramMatrix(A) == MatMul(ConjT(A), A)
Projection(A, raises) == TimesSolution(A, Solve(GramMatrix(A), ConjT(A), raises))
\* H = D.T.conj() @ (I - P_A) @ D                            (lines 56, 110)
HMatrix(D, P_A) ==
    IF P_A = Raised THEN Raised
    ELSE MatMul(MatMul(ConjT(D), MatSub(Eye(Rows(D)), P_A)), D)
\* (H * ((P @ (A_H @ S) @ P).T)).real with S = np.linalg.solve(R, A)
FisherOf(H, P, A, S) ==
    IF S = Raised THEN Raised
    ELSE Real(Hadamard(H, Transpose(MatMul(MatMul(P, MatMul(ConjT(A), S)), P))))
\* (H * ((P @ (A_H @ np.linalg.solve(R, A)) @ P).T)).real           (line 58)
FisherSto(H, P, A, R, raises) == FisherOf(H, P, A, Solve(R, A, raises))
\* (H * P.T).real                                                  (line 112)
FisherDet(H, P) == Real(Hadamard(H, Transpose(P)))
\* Xi * c for an inverse Xi that was computed, Raised otherwise
ScaleInverse(Xi, c) == IF Xi = Raised THEN Raised ELSE Scale(c, Xi)
\* np.linalg.inv(X) * (sigma / n_snapshots / 2)              (lines 59, 112)
InvertAndScale(X, sigma, n_snapshots, raises) ==
    ScaleInverse(Inv(X, raises), NoiseScale(sigma, n_snapshots))
\* A * p: column j of A times p[j]
ScaleColumns(A, p) ==
    Mat([i \in 1..Rows(A) |-> [j \in 1..Cols(A) |-> CMul(A[i][j], p[j])]],
        Rows(A), Cols(A))
\* R = (A * p) @ A_H + sigma * np.eye(m)                          (line 169)
CovarianceStouc(A, p, sigma) ==
    MatAdd(MatMul(ScaleColumns(A, p), ConjT(A)), Scale(CInt(sigma), Eye(Rows(A))))
\* 0.5 * (R_inv + R_inv.conj().T)                                 (line 171)
Hermitize(R_inv) ==
    IF R_inv = Raised THEN Raised
    ELSE Scale(Half, MatAdd(R_inv, ConjT(R_inv)))
\* R_inv = np.linalg.inv(R); R_inv = 0.5 * (R_inv + R_inv.conj().T)
\*                                                         (lines 170, 171)
HermitianInverse(R, raises) == Hermitize(Inv(R, raises))
\* p[:, np.newaxis] * X: row i of X times p[i]
ScaleRows(p, X) ==
    Mat([i \in 1..Rows(X) |-> [j \in 1..Cols(X) |-> CMul(p[i], X[i][j])]],
        Rows(X), Cols(X))
\* 2.0 * (p * s).real[:, np.newaxis] and s.real[:, np.newaxis]
TwicePowerTimes(p, s) ==
    Column(Vec([j \in 1..Len(p) |-> CMul(Two, CReal(CMul(p[j], s[j])))], Len(p)))
RealColumn(s) == Column(Vec([j \in 1..Len(s) |-> CReal(s[j])], Len(s)))
\* The blocks of the Fisher information matrix, from the products of lines
\* 172 - 176 and 179                                      (lines 177 - 184)
BlocksOf(A, DA, p, DRD, DRA, ARD, ARA, PP, R_inv2) ==
    [tt |-> Scale(Two, Real(Hadamard(
                MatAdd(Hadamard(Transpose(DRD), ARA), Hadamard(Conj(DRA), ARD)),
                PP))),
     pp |-> Real(Hadamard(ConjT(ARA), ARA)),
     ss |-> CReal(Trace(R_inv2)),
     tp |-> Scale(Two, Real(Hadamard(Conj(DRA), ScaleRows(p, ARA)))),
     ts |-> TwicePowerTimes(p, ColSums(Hadamard(Conj(DA), MatMul(R_inv2, A)))),
     ps |-> RealColumn(ColSums(Hadamard(Conj(A), MatMul(R_inv2, A))))]
\* The blocks of the Fisher information matrix            (lines 172 - 184)
FIMBlocks(A, DA, R_inv, p) ==
    BlocksOf(A, DA, p,
             MatMul(MatMul(ConjT(DA), R_inv), DA),
             MatMul(MatMul(ConjT(DA), R_inv), A),
             MatMul(MatMul(ConjT(A), R_inv), DA),
             MatMul(MatMul(ConjT(A), R_inv), A),
             Outer(p, p),
             MatMul(R_inv, R_inv))
\* Mutant of AssembleFIM: the lower-left angle-power block is FIM_tp, not
\* its conjugate transpose.
AssembleFIM_NoTranspose(b) ==
    HStack3(b.tt, b.tp, b.ts)
    \o HStack3(b.tp, b.pp, b.ps)
    \o HStack3(ConjT(b.ts), ConjT(b.ps), << <<b.ss>> >>)
\* FIM = np.block([[tt, tp, ts], [tp^H, pp, ps], [ts^H, ps^H, ss]])
\*                                                         (lines 185 - 189)
AssembleFIM(b) ==
    HStack3(b.tt, b.tp, b.ts)
    \o HStack3(ConjT(b.tp), b.pp, b.ps)
    \o HStack3(ConjT(b.ts), ConjT(b.ps), << <<b.ss>> >>)
\* np.linalg.inv(FIM)[:k, :k] / n_snapshots                       (line 190)
AngleBlock(FIM_inv, k, n_snapshots) ==
    Scale(CInv(CInt(n_snapshots)), TopLeft(FIM_inv, k))

(***************************************************************************)
(* Calls.  A caller makes two calls.  Each call has its arguments, its     *)
(* position in the function body (pc, named after the source line about to *)
(* run), its local variables and its outcome.  log counts what the call    *)
(* did to its collaborators: normalizer calls, steering_matrix calls,      *)
(* LAPACK solves/inverses started and LinAlgErrors they raised, and        *)
(* whether the call began while another call was inside its body.          *)
(***************************************************************************)
VARIABLES args, pc, loc, out, log
vars == <<args, pc, loc, out, log, rounding>>

MaxSigma == 3
MaxSnapshots == 2

Calls == {1, 2}
Fns == {"sto", "det", "stouc"}

\* Power specifications tried for k sources.  The last two of each list
\* have the wrong shape for k sources: a vector of the wrong length and a
\* 1 x 2 matrix (a wrong column count for k = 1, a wrong row count for
\* k = 2).  PD, PH and PU share their diagonal: PD is diagonal, PH is
\* Hermitian with correlated sources, PU is not Hermitian.
PD == << <<Two, Zero>>, <<Zero, Two>> >>
PH == << <<Two, <<1, 1, 1>> >>, << <<1, -1, 1>>, Two>> >>
PU == << <<Two, ImagUnit>>, <<Zero, Two>> >>
PowerSpecs(k) ==
    IF k = 1
    THEN {Scalar(0), Scalar(1), Vector(<<2>>), Matrix(<< <<Two>> >>),
          Vector(<<1, 2>>), Matrix(<< <<One, Zero>> >>)}
    ELSE {Scalar(0), Scalar(1), Vector(<<1, 2>>), Vector(<<2, 5>>), Matrix(PD),
          Matrix(PH), Matrix(PU), Vector(<<2>>), Matrix(<< <<One, Zero>> >>)}

ScenesOf(fn) ==
    IF fn = "stouc" THEN {"ula2x1", "arr3x2"}
    ELSE {"ula2x1", "ula3x2", "dup2x2"}

ArgsOf(fn) ==
    {[fn |-> fn, scene |-> sc, ff1d |-> f, p |-> p, sigma |-> s,
      n_snapshots |-> n, output_fim |-> o] :
        sc \in ScenesOf(fn), f \in BOOLEAN, p \in PowerSpecs(2) \cup PowerSpecs(1),
        s \in 0..MaxSigma, n \in 1..MaxSnapshots, o \in BOOLEAN}
WellFormed(a) ==
    /\ a.p \in PowerSpecs(SourcesSize(a.scene))
    /\ a.fn # "stouc" => ~a.output_fim
AllArgs == {a \in UNION {ArgsOf(fn) : fn \in Fns} : WellFormed(a)}

\* The second call repeats the first with at most one of the power, the
\* noise variance and the snapshot count changed; the noise variance and the
\* snapshot count do not go down.
Variations(a) ==
    {b \in {[a EXCEPT !.p = p, !.sigma = s, !.n_snapshots = n] :
                p \in PowerSpecs(SourcesSize(a.scene)),
                s \in a.sigma..MaxSigma,
                n \in a.n_snapshots..(2 * MaxSnapshots)} :
        \/ b.p = a.p /\ b.sigma = a.sigma
        \/ b.p = a.p /\ b.n_snapshots = a.n_snapshots
        \/ b.sigma = a.sigma /\ b.n_snapshots = a.n_snapshots}

NoArgs == [fn |-> "none"]
None == <<>>
NoLoc == [k |-> 0, m |-> 0, P |-> None, A |-> None, D |-> None, R |-> None,
          R_inv |-> None, H |-> None, FIM |-> None, FIM_inv |-> None, CRB |-> None]
NoOut == [kind |-> "none", err |-> "", ret |-> <<>>]
NoLog == [unify |-> 0, steering |-> 0, solves |-> 0, linalg_errors |-> 0,
          overlapped |-> FALSE]

SourcesError == "ValueError: Sources must be far-field and 1D."
ShapeError == "ValueError: The sample covariance matrix of the source signals must be a K x K matrix, where K is the number of sources."
UnifyError == "ValueError: unify_p"
SingularError == "LinAlgError: Singular matrix"

Entry(fn) == CASE fn = "sto" -> "l44" [] fn = "det" -> "l99" [] fn = "stouc" -> "l160"

Init ==
    /\ args = [c \in Calls |-> NoArgs]
    /\ pc = [c \in Calls |-> "idle"]
    /\ loc = [c \in Calls |-> NoLoc]
    /\ out = [c \in Calls |-> NoOut]
    /\ log = [c \in Calls |-> NoLog]
    /\ rounding = {}

\* The call raises e: the frame is dropped and nothing is returned.
Raise(c, e) ==
    /\ pc' = [pc EXCEPT ![c] = "done"]
    /\ out' = [out EXCEPT ![c] = [kind |-> "raise", err |-> e, ret |-> <<>>]]
    /\ loc' = [loc EXCEPT ![c] = NoLoc]
\* The call returns the objects of ret.
Return(c, ret) ==
    /\ pc' = [pc EXCEPT ![c] = "done"]
    /\ out' = [out EXCEPT ![c] = [kind |-> "return", err |-> "", ret |-> ret]]
    /\ loc' = [loc EXCEPT ![c] = NoLoc]
Goto(c, label) == pc' = [pc EXCEPT ![c] = label]
\* One more LAPACK call started by c, factorizing M; failed tells whether it
\* raised.
Solved(c, failed, M, f, raises) ==
    /\ log' = [log EXCEPT ![c].solves = @ + 1,
                          ![c].linalg_errors = @ + (IF failed THEN 1 ELSE 0)]
    /\ rounding' = Recorded(M, f, raises, rounding)

\* What the matrix inverted at line 59, 112 or 190 is computed from: the
\* steering matrices, the normalized power and, at lines 59 and 190, sigma.
OriginSto(l, sigma) == <<"l59", l.A, l.D, l.P, sigma>>
OriginDet(l, P) == <<"l112", l.A, l.D, P>>
OriginStouc(l, sigma) == <<"l190", l.A, l.D, l.P, sigma>>

\* The caller's calls, one after the other; an exception ends the caller.
Invoke(c) ==
    /\ pc[c] = "idle"
    /\ c = 2 => out[1].kind = "return"
    /\ \E a \in (IF c = 1 THEN AllArgs ELSE Variations(args[1])) :
          /\ args' = [args EXCEPT ![c] = a]
          /\ pc' = [pc EXCEPT ![c] = Entry(a.fn)]
    /\ UNCHANGED <<loc, out, log, rounding>>

\* A step that assigns X to the local variable var and goes on to label, or
\* raises e when X could not be computed.
Assign(c, var, X, label, e) ==
    IF X = Raised
    THEN Raise(c, e)
    ELSE /\ Goto(c, label)
         /\ loc' = [loc EXCEPT ![c][var] = X]
         /\ UNCHANGED out
\* The same for a step whose value comes out of one LAPACK call.
SolveAssign(c, var, X, label, M, f, raises) ==
    /\ Assign(c, var, X, label, SingularError)
    /\ Solved(c, X = Raised, M, f, raises)

(***************************************************************************)
(* crb_sto_farfield_1d                                      (lines 5 - 60) *)
(***************************************************************************)
\* lines 44 - 46
StoL44(c) ==
    /\ pc[c] = "l44"
    /\ IF ~args[c].ff1d
       THEN Raise(c, SourcesError)
       ELSE /\ Goto(c, "l47")
            /\ loc' = [loc EXCEPT ![c].k = SourcesSize(args[c].scene)]
            /\ UNCHANGED out
    /\ UNCHANGED <<args, log>>
    /\ UNCHANGED rounding
\* line 47
StoL47(c) ==
    /\ pc[c] = "l47"
    /\ Assign(c, "P", UnifyPToMatrix(args[c].p, loc[c].k), "l48", UnifyError)
    /\ log' = [log EXCEPT ![c].unify = @ + 1]
    /\ UNCHANGED args
    /\ UNCHANGED rounding
\* lines 48 - 52
StoL48(c) ==
    /\ pc[c] = "l48"
    /\ loc' = [loc EXCEPT
                  ![c].A = SteeringMatrix(args[c].scene)[1],
                  ![c].D = SteeringMatrix(args[c].scene)[2],
                  ![c].m = ArraySize(args[c].scene),
                  ![c].R = CovarianceSto(SteeringMatrix(args[c].scene)[1],
                                         loc[c].P, args[c].sigma)]
    /\ Goto(c, "l54")
    /\ log' = [log EXCEPT ![c].steering = @ + 1]
    /\ UNCHANGED <<args, out>>
    /\ UNCHANGED rounding
\* Mutant of StoL54: a singular A^H A is caught and the projection is
\* replaced by zero.
ZeroIfRaised(P_A, m) == IF P_A = Raised THEN Scale(Zero, Eye(m)) ELSE P_A
FallbackStep(c, P_A, M, f, raises) ==
    /\ Goto(c, "l58")
    /\ loc' = [loc EXCEPT ![c].H = HMatrix(loc[c].D, ZeroIfRaised(P_A, loc[c].m))]
    /\ UNCHANGED out
    /\ Solved(c, P_A = Raised, M, f, raises)
StoL54_Fallback(c) ==
    /\ pc[c] = "l54"
    /\ \E raises \in LapackRaises(GramMatrix(loc[c].A), FloatOf(GramMatrix(loc[c].A), <<>>),
                                rounding) :
          FallbackStep(c, Projection(loc[c].A, raises), GramMatrix(loc[c].A),
                       FloatOf(GramMatrix(loc[c].A), <<>>), raises)
    /\ UNCHANGED args
\* lines 54 - 56
StoL54(c) ==
    /\ pc[c] = "l54"
    /\ \E raises \in LapackRaises(GramMatrix(loc[c].A), FloatOf(GramMatrix(loc[c].A), <<>>),
                                rounding) :
          SolveAssign(c, "H", HMatrix(loc[c].D, Projection(loc[c].A, raises)), "l58",
                      GramMatrix(loc[c].A), FloatOf(GramMatrix(loc[c].A), <<>>),
                      raises)
    /\ UNCHANGED args
\* line 58
StoL58(c) ==
    /\ pc[c] = "l58"
    /\ \E raises \in LapackRaises(loc[c].R, FloatOf(loc[c].R, <<>>), rounding) :
          SolveAssign(c, "CRB",
                      FisherSto(loc[c].H, loc[c].P, loc[c].A, loc[c].R, raises),
                      "l59", loc[c].R, FloatOf(loc[c].R, <<>>), raises)
    /\ UNCHANGED args
\* line 59
StoL59(c) ==
    /\ pc[c] = "l59"
    /\ \E raises \in LapackRaises(loc[c].CRB,
                                FloatOf(loc[c].CRB, OriginSto(loc[c], args[c].sigma)),
                                rounding) :
          SolveAssign(c, "CRB",
                      InvertAndScale(loc[c].CRB, args[c].sigma, args[c].n_snapshots,
                                     raises),
                      "l60", loc[c].CRB,
                      FloatOf(loc[c].CRB, OriginSto(loc[c], args[c].sigma)), raises)
    /\ UNCHANGED args
\* line 60
StoL60(c) ==
    /\ pc[c] = "l60"
    /\ Return(c, <<Symmetrize(loc[c].CRB)>>)
    /\ UNCHANGED <<args, log>>
    /\ UNCHANGED rounding

(***************************************************************************)
(* crb_det_farfield_1d                                    (lines 62 - 113) *)
(***************************************************************************)
\* Mutant of DetL99: the placement is not checked.
DetL99_NoCheck(c) ==
    /\ pc[c] = "l99"
    /\ Goto(c, "l103")
    /\ loc' = [loc EXCEPT ![c].k = SourcesSize(args[c].scene),
                          ![c].m = ArraySize(args[c].scene)]
    /\ UNCHANGED <<args, out, log>>
    /\ UNCHANGED rounding
\* lines 99 - 102
DetL99(c) ==
    /\ pc[c] = "l99"
    /\ IF ~args[c].ff1d
       THEN Raise(c, SourcesError)
       ELSE /\ Goto(c, "l103")
            /\ loc' = [loc EXCEPT ![c].k = SourcesSize(args[c].scene),
                                  ![c].m = ArraySize(args[c].scene)]
            /\ UNCHANGED out
    /\ UNCHANGED <<args, log>>
    /\ UNCHANGED rounding
\* Mutant of DetL103: the column count is not checked.
DetL103_RowsOnly(c) ==
    /\ pc[c] = "l103"
    /\ IF args[c].p.ndim # 2 \/ Rows(args[c].p.v) # loc[c].k
       THEN Raise(c, ShapeError)
       ELSE /\ Goto(c, "l105")
            /\ UNCHANGED <<loc, out>>
    /\ UNCHANGED <<args, log>>
    /\ UNCHANGED rounding
\* lines 103 - 104
DetL103(c) ==
    /\ pc[c] = "l103"
    /\ IF \/ args[c].p.ndim # 2
          \/ Rows(args[c].p.v) # loc[c].k
          \/ Cols(args[c].p.v) # loc[c].k
       THEN Raise(c, ShapeError)
       ELSE /\ Goto(c, "l105")
            /\ UNCHANGED <<loc, out>>
    /\ UNCHANGED <<args, log>>
    /\ UNCHANGED rounding
\* line 105
DetL105(c) ==
    /\ pc[c] = "l105"
    /\ loc' = [loc EXCEPT ![c].A = SteeringMatrix(args[c].scene)[1],
                          ![c].D = SteeringMatrix(args[c].scene)[2]]
    /\ Goto(c, "l108")
    /\ log' = [log EXCEPT ![c].steering = @ + 1]
    /\ UNCHANGED <<args, out>>
    /\ UNCHANGED rounding
\* lines 107 - 110
DetL108(c) ==
    /\ pc[c] = "l108"
    /\ \E raises \in LapackRaises(GramMatrix(loc[c].A), FloatOf(GramMatrix(loc[c].A), <<>>),
                                rounding) :
          SolveAssign(c, "H", HMatrix(loc[c].D, Projection(loc[c].A, raises)), "l112",
                      GramMatrix(loc[c].A), FloatOf(GramMatrix(loc[c].A), <<>>),
                      raises)
    /\ UNCHANGED args
\* line 112
DetL112(c) ==
    /\ pc[c] = "l112"
    /\ \E raises \in LapackRaises(FisherDet(loc[c].H, args[c].p.v),
                                FloatOf(FisherDet(loc[c].H, args[c].p.v),
                                        OriginDet(loc[c], args[c].p.v)),
                                rounding) :
          SolveAssign(c, "CRB",
                      InvertAndScale(FisherDet(loc[c].H, args[c].p.v),
                                     args[c].sigma, args[c].n_snapshots, raises),
                      "l113", FisherDet(loc[c].H, args[c].p.v),
                      FloatOf(FisherDet(loc[c].H, args[c].p.v),
                              OriginDet(loc[c], args[c].p.v)), raises)
    /\ UNCHANGED args
\* line 113
DetL113(c) ==
    /\ pc[c] = "l113"
    /\ Return(c, <<Symmetrize(loc[c].CRB)>>)
    /\ UNCHANGED <<args, log>>
    /\ UNCHANGED rounding

(***************************************************************************)
(* crb_stouc_farfield_1d                                 (lines 115 - 191) *)
(***************************************************************************)
\* lines 160 - 162
StoucL160(c) ==
    /\ pc[c] = "l160"
    /\ IF ~args[c].ff1d
       THEN Raise(c, SourcesError)
       ELSE /\ Goto(c, "l163")
            /\ loc' = [loc EXCEPT ![c].k = SourcesSize(args[c].scene)]
            /\ UNCHANGED out
    /\ UNCHANGED <<args, log>>
    /\ UNCHANGED rounding
\* Mutant of StoucL163: a power matrix is reduced to the real parts of its
\* row sums, not to its diagonal.
RowSums(p, k) ==
    IF p.ndim = 2 /\ IsSquareOf(p.v, k)
    THEN Vec([i \in 1..k |-> CReal(SumTo(p.v[i], k))], k)
    ELSE UnifyPToVector(p, k)
StoucL163_RowSums(c) ==
    /\ pc[c] = "l163"
    /\ Assign(c, "P", RowSums(args[c].p, loc[c].k), "l164", UnifyError)
    /\ log' = [log EXCEPT ![c].unify = @ + 1]
    /\ UNCHANGED args
    /\ UNCHANGED rounding
\* Mutant of StoucL163: the caller's power array is normalized in place.
NormalizedInPlace(p, v) == IF v = Raised THEN p ELSE [ndim |-> 1, v |-> v]
StoucL163_InPlace(c) ==
    /\ pc[c] = "l163"
    /\ Assign(c, "P", UnifyPToVector(args[c].p, loc[c].k), "l164", UnifyError)
    /\ args' = [args EXCEPT ![c].p =
                   NormalizedInPlace(@, UnifyPToVector(args[c].p, loc[c].k))]
    /\ log' = [log EXCEPT ![c].unify = @ + 1]
    /\ UNCHANGED rounding
\* line 163
StoucL163(c) ==
    /\ pc[c] = "l163"
    /\ Assign(c, "P", UnifyPToVector(args[c].p, loc[c].k), "l164", UnifyError)
    /\ log' = [log EXCEPT ![c].unify = @ + 1]
    /\ UNCHANGED args
    /\ UNCHANGED rounding
\* lines 164 - 169
StoucL164(c) ==
    /\ pc[c] = "l164"
    /\ loc' = [loc EXCEPT
                  ![c].m = ArraySize(args[c].scene),
                  ![c].A = SteeringMatrix(args[c].scene)[1],
                  ![c].D = SteeringMatrix(args[c].scene)[2],
                  ![c].R = CovarianceStouc(SteeringMatrix(args[c].scene)[1],
                                           loc[c].P, args[c].sigma)]
    /\ Goto(c, "l170")
    /\ log' = [log EXCEPT ![c].steering = @ + 1]
    /\ UNCHANGED <<args, out>>
    /\ UNCHANGED rounding
\* lines 170 - 171
StoucL170(c) ==
    /\ pc[c] = "l170"
    /\ \E raises \in LapackRaises(loc[c].R, FloatOf(loc[c].R, <<>>), rounding) :
          SolveAssign(c, "R_inv", HermitianInverse(loc[c].R, raises), "l172",
                      loc[c].R, FloatOf(loc[c].R, <<>>), raises)
    /\ UNCHANGED args
\* lines 172 - 189
StoucL172(c) ==
    /\ pc[c] = "l172"
    /\ loc' = [loc EXCEPT ![c].FIM =
                  AssembleFIM(FIMBlocks(loc[c].A, loc[c].D, loc[c].R_inv, loc[c].P))]
    /\ Goto(c, "l190")
    /\ UNCHANGED <<args, out, log>>
    /\ UNCHANGED rounding
\* CRB = FIM_inv[:k, :k] / n_snapshots, or the LinAlgError of the inversion
AssignAngleBlock(c, FIM_inv, raises) ==
    /\ IF FIM_inv = Raised
       THEN Raise(c, SingularError)
       ELSE /\ Goto(c, "l191")
            /\ loc' = [loc EXCEPT
                          ![c].FIM_inv = FIM_inv,
                          ![c].CRB = AngleBlock(FIM_inv, loc[c].k,
                                                args[c].n_snapshots)]
            /\ UNCHANGED out
    /\ Solved(c, FIM_inv = Raised, loc[c].FIM,
              FloatOf(loc[c].FIM, OriginStouc(loc[c], args[c].sigma)), raises)
\* line 190
StoucL190(c) ==
    /\ pc[c] = "l190"
    /\ \E raises \in LapackRaises(loc[c].FIM,
                                FloatOf(loc[c].FIM, OriginStouc(loc[c], args[c].sigma)),
                                rounding) :
          AssignAngleBlock(c, Inv(loc[c].FIM, raises), raises)
    /\ UNCHANGED args
\* line 191: output_fim is not read
StoucL191(c) ==
    /\ pc[c] = "l191"
    /\ Return(c, <<Symmetrize(loc[c].CRB)>>)
    /\ UNCHANGED <<args, log>>
    /\ UNCHANGED rounding

Step(c) ==
    \/ StoL44(c) \/ StoL47(c) \/ StoL48(c) \/ StoL54(c) \/ StoL58(c)
    \/ StoL59(c) \/ StoL60(c)
    \/ DetL99(c) \/ DetL103(c) \/ DetL105(c) \/ DetL108(c) \/ DetL112(c)
    \/ DetL113(c)
    \/ StoucL160(c) \/ StoucL163(c) \/ StoucL164(c) \/ StoucL170(c)
    \/ StoucL172(c) \/ StoucL190(c) \/ StoucL191(c)

Next == \E c \in Calls : Invoke(c) \/ Step(c)

Spec == Init /\ [][Next]_vars

(***************************************************************************)
(* Two callers, each making one call, their steps interleaved in any order. *)
(***************************************************************************)
ConcArgs ==
    {a \in AllArgs :
        /\ a.ff1d /\ ~a.output_fim
        /\ a.n_snapshots = 1
        /\ \/ a.sigma = 1 /\ a.p \in {Scalar(1), Matrix(<< <<Two>> >>), Matrix(PH)}
           \/ a.sigma = 0 /\ a.p = Vector(<<1, 2>>) /\ a.scene \in {"ula3x2", "arr3x2"}}

InBody(c) == pc[c] \notin {"idle", "done"}

InvokeConc(c) ==
    /\ pc[c] = "idle"
    /\ \E a \in ConcArgs :
          /\ args' = [args EXCEPT ![c] = a]
          /\ pc' = [pc EXCEPT ![c] = Entry(a.fn)]
    /\ log' = [log EXCEPT ![c].overlapped = \E d \in Calls \ {c} : InBody(d)]
    /\ UNCHANGED <<loc, out, rounding>>

NextConc == \E c \in Calls : InvokeConc(c) \/ Step(c)

SpecConc == Init /\ [][NextConc]_vars

(***************************************************************************)
(* Observations on calls, used by the properties below.                    *)
(***************************************************************************)
Invoked(c) == pc[c] # "idle"
Done(c) == pc[c] = "done"
Returned(c) == Done(c) /\ out[c].kind = "return"
RaisedWith(c, e) == Done(c) /\ out[c] = [kind |-> "raise", err |-> e, ret |-> <<>>]
Result(c) == out[c].ret[1]
K(c) == SourcesSize(args[c].scene)
IsMatrix(X, r, q) == DOMAIN X = 1..r /\ \A i \in 1..r : DOMAIN X[i] = 1..q
IsSymmetric(X) == \A i, j \in 1..Rows(X) : X[i][j] = X[j][i]
IsReal(X) == \A i \in 1..Rows(X) : \A j \in 1..Cols(X) : X[i][j][2] = 0
Block(X, r0, c0, r, q) ==
    Mat([i \in 1..r |-> [j \in 1..q |-> X[r0 + i][c0 + j]]], r, q)
\* Every entry of X is a value fixed by the model, none is rounding noise.
Determined(X) == ~HasNoise(X)
\* The calls differ at most in the named argument.
SameBut(field) ==
    /\ Returned(1) /\ Returned(2)
    /\ field # "p" => args[1].p = args[2].p
    /\ field # "sigma" => args[1].sigma = args[2].sigma
    /\ field # "n_snapshots" => args[1].n_snapshots = args[2].n_snapshots
\* LAPACK calls of a complete run of fn: lines 54, 58, 59; 108, 112; 170, 190.
SolvesOf(fn) == IF fn = "sto" THEN 3 ELSE 2

(***************************************************************************)
(* C1.  crb_stouc_farfield_1d called with output_fim true on valid inputs  *)
(* returns the assembled (2K+1) x (2K+1) FIM in addition to the K x K CRB; *)
(* with output_fim false it returns only the CRB.                          *)
(* The code never reads output_fim: every return is the CRB alone, so the  *)
(* first half is violated by every returning call with output_fim true.    *)
(***************************************************************************)
C1_OutputFim ==
    \A c \in Calls :
        Returned(c) /\ args[c].fn = "stouc" =>
            IF args[c].output_fim
            THEN /\ Len(out[c].ret) = 2
                 /\ IsMatrix(out[c].ret[1], K(c), K(c))
                 /\ IsMatrix(out[c].ret[2], 2 * K(c) + 1, 2 * K(c) + 1)
            ELSE /\ Len(out[c].ret) = 1
                 /\ IsMatrix(out[c].ret[1], K(c), K(c))

(***************************************************************************)
(* C2.  For each evaluator and every input on which the call returns, the  *)
(* returned matrix is K x K and equals its own transpose.                  *)
(***************************************************************************)
C2_SymmetricKxK ==
    \A c \in Calls :
        Returned(c) =>
            /\ IsMatrix(Result(c), K(c), K(c))
            /\ IsSymmetric(Result(c))
            /\ Result(c) = Transpose(Result(c))
\* A call returned a 2 x 2 bound with a nonzero off-diagonal entry, computed
\* from a power matrix that is not Hermitian.
C2_Witness ==
    \E c \in Calls :
        /\ Returned(c) /\ K(c) = 2
        /\ args[c].p = Matrix(PU)
        /\ ~IsZero(Result(c)[1][2])

(***************************************************************************)
(* C3.  If sources is not a far-field 1D placement, the call ends with     *)
(* 'Sources must be far-field and 1D.' before the power specification is   *)
(* normalized or shape-checked, before steering_matrix is called and       *)
(* before any solve or inverse runs, whatever the other arguments are.     *)
(***************************************************************************)
C3_SourcesCheckedFirst ==
    \A c \in Calls :
        Invoked(c) /\ ~args[c].ff1d =>
            /\ pc[c] \in {Entry(args[c].fn), "done"}
            /\ log[c].unify = 0 /\ log[c].steering = 0
            /\ log[c].solves = 0 /\ log[c].linalg_errors = 0
            /\ loc[c] = NoLoc
            /\ Done(c) => RaisedWith(c, SourcesError)
\* The placement check ended a call whose power has the wrong shape and
\* whose geometry is singular.
C3_Witness ==
    \E c \in Calls :
        /\ RaisedWith(c, SourcesError) /\ ~args[c].ff1d
        /\ args[c].scene = "dup2x2"
        /\ UnifyPToMatrix(args[c].p, K(c)) = Raised

(***************************************************************************)
(* C4.  crb_det_farfield_1d with a far-field 1D placement of K sources and *)
(* a P that is not a K x K matrix ends with the validation error, before   *)
(* steering_matrix is called and before any solve or inverse.              *)
(***************************************************************************)
C4_DetShapeChecked ==
    \A c \in Calls :
        /\ Invoked(c) /\ args[c].fn = "det" /\ args[c].ff1d
        /\ ~(args[c].p.ndim = 2 /\ IsMatrix(args[c].p.v, K(c), K(c)))
        => /\ pc[c] \in {"l99", "l103", "done"}
           /\ log[c].steering = 0 /\ log[c].solves = 0
           /\ Done(c) => RaisedWith(c, ShapeError)
\* The shape check ended a call whose P has K rows but not K columns.
C4_Witness ==
    \E c \in Calls :
        /\ RaisedWith(c, ShapeError) /\ args[c].fn = "det"
        /\ args[c].p.ndim = 2
        /\ Rows(args[c].p.v) = K(c) /\ Cols(args[c].p.v) # K(c)

(***************************************************************************)
(* C5.  With array, sources, power and sigma fixed, the returned CRB is    *)
(* inversely proportional to n_snapshots: n1 times the first result equals *)
(* n2 times the second, entry by entry; with twice the snapshots the       *)
(* result of crb_sto and crb_det is exactly one half, and the result with  *)
(* n_snapshots = 1 is N times the result with N snapshots.  Results of     *)
(* rounding noise are not compared.                                        *)
(***************************************************************************)
C5_InverseInSnapshots ==
    SameBut("n_snapshots") /\ Determined(Result(1)) /\ Determined(Result(2)) =>
        LET n1 == args[1].n_snapshots
            n2 == args[2].n_snapshots
        IN  /\ Scale(CInt(n1), Result(1)) = Scale(CInt(n2), Result(2))
            /\ n2 = 2 * n1 /\ args[1].fn \in {"sto", "det"} =>
                   Result(2) = Scale(Half, Result(1))
            /\ n1 = 1 => Result(1) = Scale(CInt(n2), Result(2))
\* Both calls returned nonzero bounds of two sources, the second with twice
\* the snapshots of the first.
C5_Witness ==
    /\ SameBut("n_snapshots")
    /\ args[2].n_snapshots = 2 * args[1].n_snapshots
    /\ args[1].fn \in {"sto", "det"} /\ K(1) = 2
    /\ ~IsZero(Result(1)[1][1]) /\ ~IsZero(Result(1)[1][2])

(***************************************************************************)
(* C6.  For crb_stouc_farfield_1d, two K x K power matrices with the same  *)
(* diagonal yield the same CRB, whatever their off-diagonal entries.       *)
(***************************************************************************)
C6_DiagonalOnly ==
    /\ SameBut("p") /\ args[1].fn = "stouc"
    /\ args[1].p.ndim = 2 /\ args[2].p.ndim = 2
    /\ DiagOf(args[1].p.v) = DiagOf(args[2].p.v)
    => out[1] = out[2]
\* Both calls returned, one given a diagonal power matrix and the other a
\* matrix with the same diagonal and nonzero off-diagonal entries.
C6_Witness ==
    /\ SameBut("p") /\ args[1].fn = "stouc"
    /\ {args[1].p, args[2].p} \in {{Matrix(PD), Matrix(PH)}, {Matrix(PD), Matrix(PU)}}
    /\ out[1] = out[2]
    /\ ~IsZero(Result(1)[1][2])

(***************************************************************************)
(* C7.  When a solve or inverse fails as singular, that failure is the     *)
(* outcome of the call: it is not caught, retried or replaced, and no      *)
(* matrix is returned.  A call either returns a fully computed,            *)
(* symmetrized CRB or ends in an error.                                    *)
(***************************************************************************)
C7_SingularPropagates ==
    \A c \in Calls :
        /\ log[c].linalg_errors > 0 =>
              /\ RaisedWith(c, SingularError)
              /\ log[c].linalg_errors = 1
        /\ Done(c) =>
              \/ /\ out[c].kind = "raise" /\ out[c].ret = <<>>
                 /\ out[c].err = SingularError <=> log[c].linalg_errors > 0
              \/ /\ out[c].kind = "return" /\ out[c].err = ""
                 /\ log[c].linalg_errors = 0
                 /\ log[c].solves = SolvesOf(args[c].fn)
                 /\ Len(out[c].ret) = 1
                 /\ IsMatrix(Result(c), K(c), K(c)) /\ IsSymmetric(Result(c))
\* A singular A^H A ended a call of crb_sto_farfield_1d at its first solve.
C7_Witness ==
    \E c \in Calls :
        /\ RaisedWith(c, SingularError) /\ args[c].fn = "sto"
        /\ args[c].scene = "dup2x2" /\ args[c].sigma > 0
        /\ log[c].solves = 1 /\ log[c].linalg_errors = 1

(***************************************************************************)
(* C8.  With array, sources, power and n_snapshots fixed, increasing sigma *)
(* does not decrease any diagonal entry of the returned CRB; for           *)
(* crb_det_farfield_1d the CRB is sigma times a matrix that does not       *)
(* depend on sigma.                                                        *)
(* x <= y is known only for values the model fixes: rounding noise may     *)
(* lie on either side of any bound.  crb_stouc_farfield_1d with sigma = 0  *)
(* and a rank-deficient R returns rounding noise in a build whose LAPACK   *)
(* does not raise, so the statement is not decided there.                  *)
(***************************************************************************)
KnownLeq(x, y) == ~IsNoise(x) /\ ~IsNoise(y) /\ RLeq(x, y)
C8_MonotoneInSigma ==
    SameBut("sigma") /\ args[1].sigma <= args[2].sigma =>
        /\ \A i \in 1..K(1) : KnownLeq(Result(1)[i][i], Result(2)[i][i])
        /\ args[1].fn = "det" =>
               Scale(CInt(args[2].sigma), Result(1))
                   = Scale(CInt(args[1].sigma), Result(2))
\* The first call returned rounding noise at sigma = 0, the second a bound
\* at a larger sigma.
C8_Undecided ==
    /\ SameBut("sigma") /\ args[1].sigma = 0 /\ args[2].sigma > 0
    /\ HasNoise(Result(1)) /\ Determined(Result(2))

(***************************************************************************)
(* C9.  In crb_stouc_farfield_1d the assembled FIM is a real, symmetric    *)
(* (2K+1) x (2K+1) matrix ordered [angles; powers; noise variance]: its    *)
(* lower-left blocks are the transposes of the upper-right blocks FIM_tp,  *)
(* FIM_ts and FIM_ps, the diagonal blocks FIM_tt and FIM_pp are symmetric, *)
(* and the CRB before symmetrization is the top-left K x K block of the    *)
(* inverse of the full matrix divided by n_snapshots.                      *)
(***************************************************************************)
FIMStructure(c, k, F, b) ==
    /\ IsMatrix(F, 2 * k + 1, 2 * k + 1) /\ IsReal(F) /\ IsSymmetric(F)
    /\ Block(F, 0, 0, k, k) = b.tt
    /\ Block(F, 0, k, k, k) = b.tp
    /\ Block(F, 0, 2 * k, k, 1) = b.ts
    /\ Block(F, k, k, k, k) = b.pp
    /\ Block(F, k, 2 * k, k, 1) = b.ps
    /\ F[2 * k + 1][2 * k + 1] = b.ss
    /\ Block(F, k, 0, k, k) = Transpose(b.tp)
    /\ Block(F, 2 * k, 0, 1, k) = Transpose(b.ts)
    /\ Block(F, 2 * k, k, 1, k) = Transpose(b.ps)
    /\ IsSymmetric(b.tt) /\ IsSymmetric(b.pp)
    /\ pc[c] = "l191" =>
          /\ loc[c].FIM_inv = Inv(F, FALSE)
          /\ Kind(F) = "regular" =>
                /\ MatMul(F, loc[c].FIM_inv) = Eye(2 * k + 1)
                /\ MatMul(loc[c].FIM_inv, F) = Eye(2 * k + 1)
          /\ Scale(CInt(args[c].n_snapshots), loc[c].CRB)
                = TopLeft(loc[c].FIM_inv, k)
C9_FIMStructure ==
    \A c \in Calls :
        pc[c] \in {"l190", "l191"} =>
            FIMStructure(c, loc[c].k, loc[c].FIM,
                         FIMBlocks(loc[c].A, loc[c].D, loc[c].R_inv, loc[c].P))
\* The FIM of two sources was inverted; its angle-power block is not
\* symmetric and its angle-noise block is not zero.
C9_Witness ==
    \E c \in Calls :
        /\ pc[c] = "l191" /\ loc[c].k = 2
        /\ loc[c].FIM[1][4] # loc[c].FIM[2][3]
        /\ ~IsZero(loc[c].FIM[1][5])
        /\ args[c].n_snapshots > 1

(***************************************************************************)
(* The outcome of a call made alone with arguments a: each function's body *)
(* run from its first line to its raise or return, on the same build.      *)
(***************************************************************************)
Failure(e) == [kind |-> "raise", err |-> e, ret |-> <<>>]
Finish(CRB) ==
    IF CRB = Raised THEN Failure(SingularError)
    ELSE [kind |-> "return", err |-> "", ret |-> <<Symmetrize(CRB)>>]
\* f(X) for a value X that was computed, Raised otherwise
FisherStoIf(H, P, A, R, d) ==
    IF H = Raised THEN Raised
    ELSE FisherSto(H, P, A, R, Raises(FloatOf(R, <<>>), d))
FisherDetIf(H, P) == IF H = Raised THEN Raised ELSE FisherDet(H, P)
InvertAndScaleIf(X, sigma, n_snapshots, origin, d) ==
    IF X = Raised THEN Raised
    ELSE InvertAndScale(X, sigma, n_snapshots, Raises(FloatOf(X, origin), d))
InverseIf(FIM, origin, d) ==
    IF FIM = Raised THEN Raised ELSE Inv(FIM, Raises(FloatOf(FIM, origin), d))
AssembleFIMIf(A, DA, R_inv, p) ==
    IF R_inv = Raised THEN Raised ELSE AssembleFIM(FIMBlocks(A, DA, R_inv, p))
AngleBlockIf(FIM_inv, k, n_snapshots) ==
    IF FIM_inv = Raised THEN Raised ELSE AngleBlock(FIM_inv, k, n_snapshots)
StoFrom(a, P, A, D, d) ==
    IF P = Raised THEN Failure(UnifyError)
    ELSE Finish(InvertAndScaleIf(
             FisherStoIf(HMatrix(D, Projection(A, Raises(FloatOf(GramMatrix(A), <<>>), d))), P, A,
                         CovarianceSto(A, P, a.sigma), d),
             a.sigma, a.n_snapshots, <<"l59", A, D, P, a.sigma>>, d))
DetFrom(a, k, A, D, d) ==
    IF a.p.ndim # 2 \/ Rows(a.p.v) # k \/ Cols(a.p.v) # k
    THEN Failure(ShapeError)
    ELSE Finish(InvertAndScaleIf(
             FisherDetIf(HMatrix(D, Projection(A, Raises(FloatOf(GramMatrix(A), <<>>), d))), a.p.v),
             a.sigma, a.n_snapshots, <<"l112", A, D, a.p.v>>, d))
StoucOf(a, k, p, A, DA, R, d) ==
    Finish(AngleBlockIf(
        InverseIf(AssembleFIMIf(A, DA,
                                HermitianInverse(R, Raises(FloatOf(R, <<>>), d)), p),
                  <<"l190", A, DA, p, a.sigma>>, d),
        k, a.n_snapshots))
StoucFrom(a, k, p, A, DA, d) ==
    IF p = Raised THEN Failure(UnifyError)
    ELSE StoucOf(a, k, p, A, DA, CovarianceStouc(A, p, a.sigma), d)
\* d: how the build's LAPACK ends on the "rounded" matrices
Outcome(a, d) ==
    IF ~a.ff1d THEN Failure(SourcesError)
    ELSE CASE a.fn = "sto" ->
                StoFrom(a, UnifyPToMatrix(a.p, SourcesSize(a.scene)),
                        SteeringMatrix(a.scene)[1], SteeringMatrix(a.scene)[2], d)
           [] a.fn = "det" ->
                DetFrom(a, SourcesSize(a.scene),
                        SteeringMatrix(a.scene)[1], SteeringMatrix(a.scene)[2], d)
           [] a.fn = "stouc" ->
                StoucFrom(a, SourcesSize(a.scene),
                          UnifyPToVector(a.p, SourcesSize(a.scene)),
                          SteeringMatrix(a.scene)[1], SteeringMatrix(a.scene)[2], d)

(***************************************************************************)
(* C10.  Every call is side-effect-free: it leaves its arguments unchanged *)
(* and touches no state of another call, so in any interleaving of calls   *)
(* each call ends as it does when run alone on the same arguments.         *)
(***************************************************************************)
C10_SideEffectFree ==
    /\ [](\A c \in Calls : Done(c) => out[c] = Outcome(args[c], rounding))
    /\ [][\A c \in Calls :
            /\ Invoked(c) => args'[c] = args[c]
            /\ pc'[c] # pc[c] =>
                  \A d \in Calls \ {c} :
                      /\ args'[d] = args[d] /\ pc'[d] = pc[d]
                      /\ loc'[d] = loc[d] /\ out'[d] = out[d]
                      /\ log'[d] = log[d]]_vars
\* Two calls of different evaluators overlapped and both returned.
C10_Witness ==
    /\ Returned(1) /\ Returned(2)
    /\ \E c \in Calls : log[c].overlapped
    /\ {args[1].fn, args[2].fn} = {"sto", "stouc"}
    /\ \A c \in Calls : out[c] = Outcome(args[c], rounding)

====
